---- MODULE Spec2Model ----
(***************************************************************************)
(* Library circulation manager (src/library.py): Repository (load and      *)
(* persist of five JSON collections), LibraryService (startup integrity    *)
(* repair, virtual today, cataloguing, membership, loan and return).       *)
(*                                                                         *)
(* Representation.                                                         *)
(*  - A Python list is a sequence, a dataclass a record with the same      *)
(*    field names, Optional[str] = None the empty sequence None.           *)
(*  - A str is a sequence of one-character strings.                        *)
(*  - A datetime.date is a day ordinal (a natural number).  All dates of   *)
(*    the model lie in one period, so a stored date string is given by the *)
(*    digits of its day field: date_str writes it zero-padded to width 2   *)
(*    (isoformat), parse_date reads any decimal numeral (int()), so "05"   *)
(*    and "5" parse alike and differ as strings.                           *)
(***************************************************************************)
EXTENDS Integers, Sequences, FiniteSets, TLC

VARIABLES
    pc,             \* "off" (no process), "loaded" (Repository built), "ready" (LibraryService built)
    disk,           \* the five persisted collections (members, loans, works, copies, deleted_works .json)
    repo,           \* Repository: the five in-memory lists
    loaded,         \* history: the lists as Repository.__init__ read them
    today,          \* LibraryService.today
    next_work_id,   \* LibraryService._next_work_id
    next_copy_id,   \* LibraryService._next_copy_id
    next_loan_id,   \* LibraryService._next_loan_id
    done,           \* the handler that last took effect (a refused call leaves no trace)
    calls           \* how many calls of the engine took effect so far

vars == <<pc, disk, repo, loaded, today, next_work_id, next_copy_id, next_loan_id, done, calls>>

-----------------------------------------------------------------------------
(* Program constants and bounds *)

DUE_DAYS == 14

MaxDay == 1         \* today is drawn from the days 1..MaxDay and the days DUE_DAYS later, and one more
MaxCalls == 3       \* the engine is called until this many calls took effect

None == <<>>

-----------------------------------------------------------------------------
(* Strings *)

Digits == {"0", "1", "2", "3", "4", "5", "6", "7", "8", "9"}
Whitespace == {" ", "\t", "\n"}

DigitVal(c) ==
    CASE c = "0" -> 0 [] c = "1" -> 1 [] c = "2" -> 2 [] c = "3" -> 3 [] c = "4" -> 4
      [] c = "5" -> 5 [] c = "6" -> 6 [] c = "7" -> 7 [] c = "8" -> 8 [] c = "9" -> 9

DigitChar(n) ==
    CASE n = 0 -> "0" [] n = 1 -> "1" [] n = 2 -> "2" [] n = 3 -> "3" [] n = 4 -> "4"
      [] n = 5 -> "5" [] n = 6 -> "6" [] n = 7 -> "7" [] n = 8 -> "8" [] n = 9 -> "9"

\* str < str: lexicographic order of the characters (digits order as their values)
RECURSIVE StrLess(_, _)
StrLess(a, b) ==
    IF b = <<>> THEN FALSE
    ELSE IF a = <<>> THEN TRUE
    ELSE IF a[1] # b[1] THEN DigitVal(a[1]) < DigitVal(b[1])
    ELSE StrLess(Tail(a), Tail(b))

\* int(s) of a decimal numeral
RECURSIVE IntOf(_)
IntOf(s) ==
    IF s = <<>> THEN 0 ELSE 10 * IntOf(SubSeq(s, 1, Len(s) - 1)) + DigitVal(s[Len(s)])

parse_date(s) == IntOf(s)

date_str(dt) == <<DigitChar(dt \div 10), DigitChar(dt % 10)>>

\* str.strip()
RECURSIVE LStrip(_)
LStrip(s) == IF s # <<>> /\ s[1] \in Whitespace THEN LStrip(Tail(s)) ELSE s

RECURSIVE RStrip(_)
RStrip(s) ==
    IF s # <<>> /\ s[Len(s)] \in Whitespace THEN RStrip(SubSeq(s, 1, Len(s) - 1)) ELSE s

Strip(s) == RStrip(LStrip(s))

Lower(c) == CASE c = "R" -> "r" [] c = "M" -> "m" [] OTHER -> c

\* " ".join(s.split()): runs of whitespace become one space, none at the ends
RECURSIVE Collapse(_)
Collapse(s) ==
    IF s = <<>> THEN <<>>
    ELSE IF s[1] \in Whitespace
         THEN (IF LStrip(s) = <<>> THEN <<>> ELSE <<" ">> \o Collapse(LStrip(s)))
         ELSE <<s[1]>> \o Collapse(Tail(s))

\* faulty variant: the case of the letters is kept
norm_author_key_cased(author) == Collapse(Strip(author))

norm_author_key(author) ==
    LET stripped == Strip(author)
        lowered == [i \in 1..Len(stripped) |-> Lower(stripped[i])]
    IN Collapse(lowered)

-----------------------------------------------------------------------------
(* Sequences *)

Range(s) == {s[i] : i \in DOMAIN s}

SeqsUpTo(S, n) == UNION {[1..k -> S] : k \in 0..n}

Max(S) == CHOOSE x \in S : \A y \in S : y <= x

\* list.remove(x): drops the first element equal to x
RemoveFirst(s, x) ==
    IF \E i \in DOMAIN s : s[i] = x
    THEN LET i == CHOOSE j \in DOMAIN s : s[j] = x /\ \A k \in 1..(j - 1) : s[k] # x
         IN SubSeq(s, 1, i - 1) \o SubSeq(s, i + 1, Len(s))
    ELSE s

RECURSIVE RemoveAll(_, _)
RemoveAll(s, xs) ==
    IF xs = <<>> THEN s ELSE RemoveAll(RemoveFirst(s, Head(xs)), Tail(xs))

-----------------------------------------------------------------------------
(* Data classes *)

Work(id, title, key, display, reg, del) ==
    [work_id |-> id, title |-> title, author_key |-> key, author_display |-> display,
     registered_date |-> reg, deleted_date |-> del]

Copy(id, wid, status, reg, del) ==
    [copy_id |-> id, work_id |-> wid, status |-> status, registered_date |-> reg,
     deleted_date |-> del]

Member(sid, name, phone, password, reg) ==
    [student_id |-> sid, name |-> name, phone |-> phone, password |-> password,
     registered_date |-> reg]

Loan(id, cid, wid, sid, loaned, due, returned) ==
    [loan_id |-> id, copy_id |-> cid, work_id |-> wid, student_id |-> sid,
     loan_date |-> loaned, due_date |-> due, return_date |-> returned]

EmptyRepo == [works |-> <<>>, copies |-> <<>>, members |-> <<>>, loans |-> <<>>,
              deleted_works |-> <<>>]

-----------------------------------------------------------------------------
(* LibraryService: startup integrity repair *)

RECURSIVE SkipTaken(_, _)
SkipTaken(next_id, existing_ids) ==
    IF next_id \in Range(existing_ids) THEN SkipTaken(next_id + 1, existing_ids) ELSE next_id

\* faulty variant: the greatest id present is given again
next_id_is_max(existing_ids) ==
    IF existing_ids = <<>> THEN 1 ELSE Max(Range(existing_ids))

_get_next_unique_id(existing_ids) ==
    IF existing_ids = <<>> THEN 1
    ELSE SkipTaken(Max(Range(existing_ids)) + 1, existing_ids)

Ids(s, f) == [i \in DOMAIN s |-> s[i][f]]

\* step 1: copies of a work listed in deleted_works get a deleted_date
_fix_deleted_work_references(r, t) ==
    LET deleted_work_ids == {w.work_id : w \in Range(r.deleted_works)}
        fix(c) ==
            IF c.work_id \in deleted_work_ids /\ c.deleted_date = None
            THEN [c EXCEPT !.deleted_date = date_str(t),
                           !.status = IF @ = "available" THEN "deleted" ELSE @]
            ELSE c
    IN [r EXCEPT !.copies = [i \in DOMAIN r.copies |-> fix(r.copies[i])]]

\* step 2: copies of unknown works, loans of unknown members, loans of unknown copies
\* faulty variant: the returned loans are removed as well
remove_returned_loans(r) == [r EXCEPT !.loans = SelectSeq(@, LAMBDA l : l.return_date = None)]

_remove_invalid_references(r) ==
    LET valid_work_ids == {w.work_id : w \in Range(r.works)}
        valid_student_ids == {m.student_id : m \in Range(r.members)}
        valid_copy_ids == {c.copy_id : c \in Range(r.copies)}
        invalid_copies == SelectSeq(r.copies, LAMBDA c : c.work_id \notin valid_work_ids)
        copies1 == RemoveAll(r.copies, invalid_copies)
        invalid_loans1 == SelectSeq(r.loans, LAMBDA l : l.student_id \notin valid_student_ids)
        loans1 == RemoveAll(r.loans, invalid_loans1)
        invalid_loans2 == SelectSeq(loans1, LAMBDA l : l.copy_id \notin valid_copy_ids)
        loans2 == RemoveAll(loans1, invalid_loans2)
    IN [r EXCEPT !.copies = copies1, !.loans = loans2]

\* faulty variant: the duplicate open loans are left open
keep_duplicate_loans(r) == r

\* faulty variant: the sort is not stable, the later of two equal keys goes first
RECURSIVE insert_desc_unstable(_, _, _)
insert_desc_unstable(sorted, i, loans) ==
    IF sorted = <<>> THEN <<i>>
    ELSE IF ~StrLess(loans[i].loan_date, loans[Head(sorted)].loan_date)
         THEN <<i>> \o sorted
         ELSE <<Head(sorted)>> \o insert_desc_unstable(Tail(sorted), i, loans)

\* list.sort(key=loan_date, reverse=True) of the positions idx of loans: stable,
\* so among equal keys the earlier position stays first
RECURSIVE InsertDesc(_, _, _)
InsertDesc(sorted, i, loans) ==
    IF sorted = <<>> THEN <<i>>
    ELSE IF StrLess(loans[Head(sorted)].loan_date, loans[i].loan_date)
         THEN <<i>> \o sorted
         ELSE <<Head(sorted)>> \o InsertDesc(Tail(sorted), i, loans)

RECURSIVE SortDesc(_, _)
SortDesc(idx, loans) ==
    IF idx = <<>> THEN <<>>
    ELSE InsertDesc(SortDesc(SubSeq(idx, 1, Len(idx) - 1), loans), idx[Len(idx)], loans)

\* step 3: of several open loans of one copy only the first after the sort stays open
_fix_duplicate_loans(r) ==
    LET loans == r.loans
        positions == [i \in DOMAIN loans |-> i]
        active(copy_id) ==
            SelectSeq(positions,
                      LAMBDA i : loans[i].return_date = None /\ loans[i].copy_id = copy_id)
        closed(i) ==
            /\ loans[i].return_date = None
            /\ Len(active(loans[i].copy_id)) > 1
            /\ Head(SortDesc(active(loans[i].copy_id), loans)) # i
    IN [r EXCEPT !.loans =
            [i \in DOMAIN loans |->
                IF closed(i) THEN [loans[i] EXCEPT !.return_date = loans[i].loan_date]
                ELSE loans[i]]]

\* step 4: due_date = loan_date + DUE_DAYS, return_date not before loan_date
_fix_date_logic(r) ==
    LET fix(l) ==
            LET expected_due_date == parse_date(l.loan_date) + DUE_DAYS
                l1 == IF parse_date(l.due_date) # expected_due_date
                      THEN [l EXCEPT !.due_date = date_str(expected_due_date)]
                      ELSE l
            IN IF l1.return_date # None
                  /\ parse_date(l1.return_date) < parse_date(l1.loan_date)
               THEN [l1 EXCEPT !.return_date = l1.loan_date]
               ELSE l1
    IN [r EXCEPT !.loans = [i \in DOMAIN r.loans |-> fix(r.loans[i])]]

_validate_and_fix_data_integrity(r, t) ==
    _fix_date_logic(
        _fix_duplicate_loans(
            _remove_invalid_references(
                _fix_deleted_work_references(r, t))))

\* _validate_fk: every reference given (an absent one is None, a given one <<id>>)
\* names a stored record; FALSE is the ValueError
_validate_fk(r, work_id, student_id, copy_id) ==
    /\ work_id # None => \E w \in Range(r.works) : w.work_id = work_id[1]
    /\ student_id # None => \E m \in Range(r.members) : m.student_id = student_id[1]
    /\ copy_id # None => \E c \in Range(r.copies) : c.copy_id = copy_id[1]

-----------------------------------------------------------------------------
(* Input validation of register_member *)

Hangul == {"hong", "gil", "dong", "kim"}    \* the syllables U+AC00..U+D7A3 the inputs use

\* faulty variant: four digits after the year are enough
validate_student_id_short(s) ==
    /\ Len(s) \in {8, 9}
    /\ \A i \in DOMAIN s : s[i] \in Digits
    /\ s[1] = "2" /\ s[2] = "0" /\ s[3] = "2" /\ DigitVal(s[4]) \in 0..5

\* ^(193[1-9]|19[4-9][0-9]|20[01][0-9]|202[0-5])[0-9]{5}$
_validate_student_id(s) ==
    /\ Len(s) = 9
    /\ \A i \in 1..9 : s[i] \in Digits
    /\ \/ s[1] = "1" /\ s[2] = "9" /\ s[3] = "3" /\ DigitVal(s[4]) \in 1..9
       \/ s[1] = "1" /\ s[2] = "9" /\ DigitVal(s[3]) \in 4..9
       \/ s[1] = "2" /\ s[2] = "0" /\ DigitVal(s[3]) \in 0..1
       \/ s[1] = "2" /\ s[2] = "0" /\ s[3] = "2" /\ DigitVal(s[4]) \in 0..5

_validate_name(name) ==
    /\ Len(name) >= 2
    /\ Len(name) <= 4
    /\ \A i \in DOMAIN name : name[i] \in Hangul

\* ^01(0-[0-9]{4}|[1-9]-[0-9]{3,4})-[0-9]{4}$
_validate_phone(p) ==
    LET digits(from, to) == \A i \in from..to : p[i] \in Digits
    IN \/ /\ Len(p) = 13
          /\ p[1] = "0" /\ p[2] = "1" /\ p[3] \in Digits /\ p[4] = "-"
          /\ p[3] = "0" \/ DigitVal(p[3]) \in 1..9
          /\ digits(5, 8) /\ p[9] = "-" /\ digits(10, 13)
       \/ /\ Len(p) = 12
          /\ p[1] = "0" /\ p[2] = "1" /\ p[3] \in Digits /\ DigitVal(p[3]) \in 1..9
          /\ p[4] = "-" /\ digits(5, 7) /\ p[8] = "-" /\ digits(9, 12)

_validate_password(pw) ==
    /\ Len(pw) >= 4
    /\ Len(pw) <= 20
    /\ \A i \in DOMAIN pw : pw[i] \notin Whitespace

-----------------------------------------------------------------------------
(* Inputs *)

Days == (1..MaxDay) \cup ((1 + DUE_DAYS)..(MaxDay + 1 + DUE_DAYS))

Str9(a, b, c, d, e, f, g, h, i) == <<a, b, c, d, e, f, g, h, i>>

Sid1 == Str9("2", "0", "2", "3", "0", "0", "0", "0", "1")          \* "202300001"
Sid2 == Str9("2", "0", "2", "3", "0", "0", "0", "0", "2")          \* "202300002"
Sid8 == <<"2", "0", "2", "3", "0", "0", "0", "1">>                 \* "20230001"
Phone1 == <<"0", "1", "0", "-", "1", "1", "1", "1", "-", "2", "2", "2", "2">>   \* "010-1111-2222"
Phone2 == <<"0", "1", "1", "-", "3", "3", "3", "-", "4", "4", "4", "4">>        \* "011-333-4444"
Name1 == <<"hong", "gil", "dong">>
Name2 == <<"kim", "A">>                                             \* not Hangul only
Pass1 == <<"p", "a", "s", "s", "1", "2", "3", "4">>                 \* "pass1234"

StudentIds == {Sid1, Sid2}

RegisterInputs ==
    { <<Sid1, Name1, Phone1, Pass1>>,
      <<Sid2, Name1, Phone2, Pass1>>,
      <<Sid2, Name1, Phone1, Pass1>>,          \* the phone of the first
      <<Sid8, Name1, Phone1, Pass1>>,          \* eight digits
      <<Sid2, Name2, Phone2, Pass1>>,
      <<Sid2, Name1, Tail(Phone2), Pass1>>,
      <<Sid2, Name1, Phone2, <<"p", " ", "w", "d">>>>,
      <<Sid2, <<" ">>, Phone2, Pass1>> }

Title1 == <<"C", "C">>
Title2 == <<"P", "P">>
Author1 == <<"R", " ", "M">>                   \* "R M"
Author1b == <<"r", " ", " ", "m">>             \* "r  m": the same author key
Author2 == <<"M">>

AddWorkInputs ==
    { <<Title1, Author1, 1>>, <<Title1, Author1b, 1>>, <<Title1, Author1, 2>>,
      <<Title2, Author2, 1>>, <<<<" ">>, Author1, 1>>, <<Title1, <<>>, 1>>,
      <<Title1, Author1, 0>> }

WorkIds == 1..3

\* the Excel file: absent, or one row of two copies
ExcelFiles ==
    { <<>>,
      <<[title |-> Title1, author |-> Author1, registered |-> <<"0", "1">>, count |-> 2]>> }
LoanIds == 1..4

-----------------------------------------------------------------------------
(* Repository *)

\* Repository._load_works_from_excel: one work per row, numbered from 1; no rows
\* when the file is absent
_load_works_from_excel(excel) ==
    [i \in DOMAIN excel |->
        Work(i, excel[i].title, norm_author_key(excel[i].author), excel[i].author,
             excel[i].registered, None)]

RECURSIVE _generate_copies_from_works(_, _, _)
\* Repository._generate_copies_from_works: for each work as many available copies
\* as its row counts, numbered on from copy_id
_generate_copies_from_works(works, excel, copy_id) ==
    IF works = <<>> THEN <<>>
    ELSE LET work == Head(works)
             copies_count == excel[work.work_id].count
         IN  [k \in 1..copies_count |->
                 Copy(copy_id + k - 1, work.work_id, "available",
                      work.registered_date, None)]
             \o _generate_copies_from_works(Tail(works), excel, copy_id + copies_count)

\* Repository.__init__, members: records lacking a required field are skipped
load_members(members_data) ==
    SelectSeq(members_data,
              LAMBDA m : /\ m.student_id # <<>>
                         /\ m.name # <<>>
                         /\ m.phone # <<>>
                         /\ m.registered_date # <<>>)

\* Repository.__init__: the five lists as stored; with no works stored the works
\* come from the Excel file and works.json and copies.json are rewritten from it
Load(excel) ==
    /\ pc = "off"
    /\ pc' = "loaded"
    /\ disk' = IF disk.works = <<>>
                THEN LET works == _load_works_from_excel(excel)
                     IN  [disk EXCEPT !.works = works,
                                      !.copies = _generate_copies_from_works(works, excel, 1)]
                ELSE disk
    /\ repo' = [disk' EXCEPT !.members = load_members(disk.members)]
    /\ loaded' = repo'
    /\ done' = "Repository"
    /\ UNCHANGED <<today, next_work_id, next_copy_id, next_loan_id, calls>>

\* _read_json: the list in the file; the default when the file is absent or is not
\* JSON
_read_json(file, default) == IF file.kind = "json" THEN file.data ELSE default

JsonFile(data) == [kind |-> "json", data |-> data]

WorkKeys == {"work_id", "title", "author_key", "author_display", "registered_date"}
CopyKeys == {"copy_id", "work_id", "status", "registered_date"}
MemberKeys == {"student_id", "name", "phone", "password", "registered_date"}
LoanKeys == {"loan_id", "copy_id", "work_id", "student_id", "loan_date", "due_date"}

\* Work(**w), Copy(**c), Member(**m), Loan(**l): the constructor returns when every
\* field without a default is among the keys and every key is a field; it raises
\* TypeError otherwise
Constructs(record, required, optional) ==
    /\ required \subseteq DOMAIN record
    /\ DOMAIN record \subseteq required \cup optional

\* the object constructed: a field left out takes its default, None
Constructed(record, optional) ==
    [k \in DOMAIN record \cup optional |-> IF k \in DOMAIN record THEN record[k] ELSE None]

AllConstruct(data, required, optional) ==
    \A i \in DOMAIN data : Constructs(data[i], required, optional)

ConstructAll(data, optional) == [i \in DOMAIN data |-> Constructed(data[i], optional)]

Password123 == <<"p", "a", "s", "s", "w", "o", "r", "d", "1", "2", "3">>

\* Repository.__init__, members: the stored record is kept when it has a student_id,
\* a name, a phone and a registered_date, none of them empty
member_kept(m) ==
    \A field \in {"student_id", "name", "phone", "registered_date"} :
        field \in DOMAIN m /\ m[field] # <<>>

\* Repository.__init__, members: a record without password gets the default one, and
\* the key username is removed
member_record(m) ==
    [k \in (DOMAIN m \cup {"password"}) \ {"username"} |->
        IF k \in DOMAIN m THEN m[k] ELSE Password123]

members_kept(members_data) ==
    LET kept == SelectSeq(members_data, member_kept)
    IN  [i \in DOMAIN kept |-> member_record(kept[i])]

\* Repository.__init__ over the five files as they are found: works first (from the
\* Excel file, written to works.json and copies.json, when works.json gives no
\* record), then copies, deleted works, members and loans; a constructor that raises
\* ends the process
LoadFiles(excel) ==
    /\ pc = "off"
    /\ LET works_data == _read_json(disk.works, <<>>)
           from_excel == _load_works_from_excel(excel)
           written == IF works_data = <<>>
                      THEN [disk EXCEPT
                               !.works = JsonFile(from_excel),
                               !.copies = JsonFile(_generate_copies_from_works(from_excel, excel, 1))]
                      ELSE disk
           copies_data == _read_json(written.copies, <<>>)
           deleted_data == _read_json(written.deleted_works, <<>>)
           members == members_kept(_read_json(written.members, <<>>))
           loans_data == _read_json(written.loans, <<>>)
           raised == \/ ~AllConstruct(works_data, WorkKeys, {"deleted_date"})
                     \/ ~AllConstruct(copies_data, CopyKeys, {"deleted_date"})
                     \/ ~AllConstruct(deleted_data, WorkKeys, {"deleted_date"})
                     \/ ~AllConstruct(members, MemberKeys, {})
                     \/ ~AllConstruct(loans_data, LoanKeys, {"return_date"})
       IN  /\ disk' = written
           /\ pc' = IF raised THEN "crashed" ELSE "loaded"
           /\ repo' = IF raised THEN repo
                      ELSE [works |-> IF works_data = <<>> THEN from_excel
                                      ELSE ConstructAll(works_data, {"deleted_date"}),
                            copies |-> ConstructAll(copies_data, {"deleted_date"}),
                            members |-> members,
                            loans |-> ConstructAll(loans_data, {"return_date"}),
                            deleted_works |-> ConstructAll(deleted_data, {"deleted_date"})]
    /\ loaded' = repo'
    /\ done' = "Repository"
    /\ UNCHANGED <<today, next_work_id, next_copy_id, next_loan_id, calls>>

\* faulty variant: loans.json is not written
persist_without_loans(r) == [r EXCEPT !.loans = <<>>]

\* Repository.persist
persist(r) == r

-----------------------------------------------------------------------------
(* LibraryService *)

\* LibraryService.__init__: the id counters from the lists as loaded, then the repair
ServiceInit(t) ==
    /\ pc = "loaded"
    /\ pc' = "ready"
    /\ today' = t
    /\ next_work_id' = _get_next_unique_id(Ids(repo.works, "work_id"))
    /\ next_copy_id' = _get_next_unique_id(Ids(repo.copies, "copy_id"))
    /\ next_loan_id' = _get_next_unique_id(Ids(repo.loans, "loan_id"))
    /\ repo' = _validate_and_fix_data_integrity(repo, t)
    /\ done' = "LibraryService"
    /\ UNCHANGED <<disk, loaded, calls>>

\* faulty variant: the new date is taken whatever it is
set_today_any(t, new_date) == new_date

\* the today set_today(new_date) leaves when today is t
set_today_do(t, new_date) == IF new_date < t THEN t ELSE new_date

set_today(new_date) ==
    /\ pc = "ready"
    /\ calls < MaxCalls
    /\ today' = set_today_do(today, new_date)
    /\ IF new_date < today
       THEN UNCHANGED <<done, calls>>
       ELSE /\ done' = "set_today"
            /\ calls' = calls + 1
    /\ UNCHANGED <<pc, disk, repo, loaded, next_work_id, next_copy_id, next_loan_id>>

\* the first of the positions P, 0 if there is none
FirstPos(P) == IF P = {} THEN 0 ELSE CHOOSE i \in P : \A k \in P : i <= k

\* position in r.works of the work _find_work returns, 0 for None
_find_work(r, work_id) ==
    LET deleted_work_ids == {w.work_id : w \in Range(r.deleted_works)}
    IN FirstPos({i \in DOMAIN r.works :
                   /\ r.works[i].work_id = work_id
                   /\ r.works[i].work_id \notin deleted_work_ids})

\* faulty variant: the first copy of the work, whatever its status
_find_any_copy(r, work_id) ==
    FirstPos({i \in DOMAIN r.copies : r.copies[i].work_id = work_id})

\* position in r.copies of the copy _find_available_copy returns, 0 for None
_find_available_copy(r, work_id) ==
    LET deleted_work_ids == {w.work_id : w \in Range(r.deleted_works)}
    IN FirstPos({i \in DOMAIN r.copies :
                   /\ r.copies[i].work_id = work_id
                   /\ r.copies[i].work_id \notin deleted_work_ids
                   /\ r.copies[i].deleted_date = None
                   /\ r.copies[i].status = "available"})

\* what a call leaves behind: the report, the lists, the counters, and whether it persisted
Outcome(rep, r, nw, nc, nl, saved) ==
    [report |-> rep, repo |-> r, next_work_id |-> nw, next_copy_id |-> nc,
     next_loan_id |-> nl, persisted |-> saved]

Refused(rep, r, nw, nc, nl) == Outcome(rep, r, nw, nc, nl, FALSE)

\* the copies add_work appends: n of them, ids from next_copy_id on
NewCopies(n, next_id, work_id, t) ==
    [k \in 1..n |-> Copy(next_id + k - 1, work_id, "available", date_str(t), None)]

\* faulty variant: no stored work is taken for the same work
existing_none(r, title, author_key) == <<>>

\* the works add_work takes for the same work: same title, same author_key, not deleted
existing_works(r, title, author_key) ==
    SelectSeq(r.works,
              LAMBDA w : /\ w.title = title
                         /\ w.author_key = author_key
                         /\ w.deleted_date = None)

add_work_do(r, nw, nc, nl, t, title, author_display, copies) ==
    IF title = <<>> \/ Strip(title) = <<>> THEN Refused("no title", r, nw, nc, nl)
    ELSE IF author_display = <<>> \/ Strip(author_display) = <<>>
    THEN Refused("no author", r, nw, nc, nl)
    ELSE IF copies < 1 THEN Refused("copies < 1", r, nw, nc, nl)
    ELSE
    LET author_key == norm_author_key(author_display)
        existing == existing_works(r, Strip(title), author_key)
        work == IF existing # <<>> THEN existing[1]
                ELSE Work(nw, Strip(title), author_key, Strip(author_display),
                          date_str(t), None)
        works1 == IF existing # <<>> THEN r.works ELSE Append(r.works, work)
        nw1 == IF existing # <<>> THEN nw ELSE nw + 1
        r1 == [r EXCEPT !.works = works1]
        n == IF copies > 1 THEN copies ELSE 1
    IN IF ~_validate_fk(r1, <<work.work_id>>, None, None)
       THEN Refused("fk", [r1 EXCEPT !.works = RemoveFirst(works1, work)], nw1, nc, nl)
       ELSE Outcome("ok",
                    [r1 EXCEPT !.copies = r.copies \o NewCopies(n, nc, work.work_id, t)],
                    nw1, nc + n, nl, TRUE)

\* faulty variant: the returned loans are taken for the open ones
returned_loans_of_work(r, work_id) ==
    SelectSeq(r.loans, LAMBDA l : l.work_id = work_id /\ l.return_date # None)

\* the open loans delete_work looks for
loans_of_work(r, work_id) ==
    SelectSeq(r.loans, LAMBDA l : l.work_id = work_id /\ l.return_date = None)

\* faulty variant: the copy gets its deleted_date and keeps its status
delete_copy_date_only(c, work_id, t) ==
    IF c.work_id = work_id /\ c.deleted_date = None
    THEN [c EXCEPT !.deleted_date = date_str(t)]
    ELSE c

\* the logical delete of one copy by delete_work
delete_copy(c, work_id, t) ==
    IF c.work_id = work_id /\ c.deleted_date = None
    THEN [c EXCEPT !.deleted_date = date_str(t),
                   !.status = IF @ = "available" THEN "deleted" ELSE @]
    ELSE c

delete_work_do(r, nw, nc, nl, t, work_id) ==
    LET w == _find_work(r, work_id)
        active_loans == loans_of_work(r, work_id)
    IN IF w = 0 \/ r.works[w].deleted_date # None
       THEN Refused("no such work", r, nw, nc, nl)
       ELSE IF active_loans # <<>> THEN Refused("on loan", r, nw, nc, nl)
       ELSE
       LET work == [r.works[w] EXCEPT !.deleted_date = date_str(t)]
       IN Outcome("ok",
                  [r EXCEPT !.works[w] = work,
                            !.deleted_works = Append(@, work),
                            !.copies = [i \in DOMAIN r.copies |->
                                           delete_copy(r.copies[i], work_id, t)]],
                  nw, nc, nl, TRUE)

\* faulty variant: nothing is ever taken
taken_never(r, field, value) == FALSE

\* register_member's duplicate tests: a member has this student_id, or this phone
taken(r, field, value) == \E m \in Range(r.members) : m[field] = value

register_member_do(r, nw, nc, nl, t, student_id, name, phone, password) ==
    IF \E x \in {student_id, name, phone, password} : x = <<>> \/ Strip(x) = <<>>
    THEN Refused("empty", r, nw, nc, nl)
    ELSE IF ~_validate_student_id(Strip(student_id))
    THEN Refused("student_id format", r, nw, nc, nl)
    ELSE IF ~_validate_name(Strip(name)) THEN Refused("name format", r, nw, nc, nl)
    ELSE IF ~_validate_phone(Strip(phone)) THEN Refused("phone format", r, nw, nc, nl)
    ELSE IF ~_validate_password(Strip(password))
    THEN Refused("password format", r, nw, nc, nl)
    ELSE IF taken(r, "student_id", Strip(student_id))
    THEN Refused("student_id taken", r, nw, nc, nl)
    ELSE IF taken(r, "phone", Strip(phone))
    THEN Refused("phone taken", r, nw, nc, nl)
    ELSE Outcome("ok",
                 [r EXCEPT !.members =
                     Append(@, Member(Strip(student_id), Strip(name), Strip(phone),
                                      Strip(password), date_str(t)))],
                 nw, nc, nl, TRUE)

\* faulty variant: the member is dropped before the open loans are looked at
remove_member_first(r, nw, nc, nl, student_id) ==
    LET m == FirstPos({i \in DOMAIN r.members : r.members[i].student_id = student_id})
    IN IF m = 0 THEN Outcome("no such member", r, nw, nc, nl, FALSE)
       ELSE LET r1 == [r EXCEPT !.members = RemoveFirst(@, r.members[m])]
            IN IF \E l \in Range(r.loans) : l.student_id = student_id /\ l.return_date = None
               THEN Outcome("has loans", r1, nw, nc, nl, FALSE)
               ELSE Outcome("ok", r1, nw, nc, nl, TRUE)

\* faulty variant: the member is removed whatever loans name it
remove_member_unchecked(r, nw, nc, nl, student_id) ==
    LET m == FirstPos({i \in DOMAIN r.members : r.members[i].student_id = student_id})
    IN IF m = 0 THEN Refused("no such member", r, nw, nc, nl)
       ELSE Outcome("ok", [r EXCEPT !.members = RemoveFirst(@, r.members[m])],
                    nw, nc, nl, TRUE)

\* faulty variant: the returned loans are taken for the open ones
returned_loans_of_member(r, student_id) ==
    SelectSeq(r.loans, LAMBDA l : l.student_id = student_id /\ l.return_date # None)

\* the open loans remove_member looks for
loans_of_member(r, student_id) ==
    SelectSeq(r.loans, LAMBDA l : l.student_id = student_id /\ l.return_date = None)

remove_member_do(r, nw, nc, nl, student_id) ==
    LET m == FirstPos({i \in DOMAIN r.members : r.members[i].student_id = student_id})
        active_loans == loans_of_member(r, student_id)
    IN IF m = 0 THEN Refused("no such member", r, nw, nc, nl)
       ELSE IF active_loans # <<>> THEN Refused("has loans", r, nw, nc, nl)
       ELSE Outcome("ok", [r EXCEPT !.members = RemoveFirst(@, r.members[m])],
                    nw, nc, nl, TRUE)

\* faulty variant: the due date is a day short
new_loan_due_early(loan_id, copy_id, work_id, student_id, t) ==
    Loan(loan_id, copy_id, work_id, student_id, date_str(t), date_str(t + DUE_DAYS - 1), None)

\* the record loan appends
new_loan(loan_id, copy_id, work_id, student_id, t) ==
    Loan(loan_id, copy_id, work_id, student_id, date_str(t), date_str(t + DUE_DAYS), None)

loan_do(r, nw, nc, nl, t, student_id, work_id) ==
    IF ~_validate_fk(r, <<work_id>>, <<student_id>>, None)
    THEN Refused("fk", r, nw, nc, nl)
    ELSE IF ~\E m \in Range(r.members) : m.student_id = student_id
    THEN Refused("no such member", r, nw, nc, nl)
    ELSE
    LET w == _find_work(r, work_id)
        cp == _find_available_copy(r, work_id)
    IN IF w = 0 \/ r.works[w].deleted_date # None
       THEN Refused("no such work", r, nw, nc, nl)
       ELSE IF cp = 0 THEN Refused("no available copy", r, nw, nc, nl)
       ELSE IF \E l \in Range(r.loans) :
                   l.copy_id = r.copies[cp].copy_id /\ l.return_date = None
       THEN Refused("copy on loan", r, nw, nc, nl)
       ELSE IF ~_validate_fk(r, None, None, <<r.copies[cp].copy_id>>)
       THEN Refused("fk", r, nw, nc, nl)
       ELSE Outcome("ok",
                    [r EXCEPT !.copies[cp].status = "loaned",
                              !.loans = Append(@, new_loan(nl, r.copies[cp].copy_id,
                                                           work_id, student_id, t))],
                    nw, nc, nl + 1, TRUE)

\* faulty variant: a returned copy is available again whether deleted or not
returned_available(c) == "available"

\* the status return_copy gives a copy that says loaned
returned_status(c) == IF c.deleted_date = None THEN "available" ELSE c.status

\* faulty variant: a return on the due date is overdue
overdue_on_due(return_date, due_date) == parse_date(return_date) >= parse_date(due_date)

\* return_copy's overdue test
overdue(return_date, due_date) == parse_date(return_date) > parse_date(due_date)

\* faulty variant: no loan is taken for returned
returned_never(l) == FALSE

\* the loan has been returned
already_returned(l) == l.return_date # None

return_copy_do(r, nw, nc, nl, t, loan_id) ==
    LET l == FirstPos({i \in DOMAIN r.loans : r.loans[i].loan_id = loan_id})
    IN IF l = 0 THEN Refused("no such loan", r, nw, nc, nl)
       ELSE IF already_returned(r.loans[l]) THEN Refused("already returned", r, nw, nc, nl)
       ELSE IF ~_validate_fk(r, <<r.loans[l].work_id>>, <<r.loans[l].student_id>>,
                             <<r.loans[l].copy_id>>)
       THEN Refused("fk", r, nw, nc, nl)
       ELSE
       LET cp == FirstPos({i \in DOMAIN r.copies : r.copies[i].copy_id = r.loans[l].copy_id})
           copies1 == IF cp # 0 /\ r.copies[cp].status = "loaned"
                      THEN [r.copies EXCEPT ![cp].status = returned_status(r.copies[cp])]
                      ELSE r.copies
           late == overdue(date_str(t), r.loans[l].due_date)
       IN Outcome(IF late THEN "ok (overdue)" ELSE "ok",
                  [r EXCEPT !.copies = copies1, !.loans[l].return_date = date_str(t)],
                  nw, nc, nl, TRUE)

Success == {"ok", "ok (overdue)"}

\* a call of the engine: its outcome becomes the state, persisted if it says so
Call(name, out) ==
    /\ pc = "ready"
    /\ calls < MaxCalls
    /\ done' = IF out.report \in Success THEN name ELSE done
    /\ calls' = IF out.report \in Success THEN calls + 1 ELSE calls
    /\ repo' = out.repo
    /\ next_work_id' = out.next_work_id
    /\ next_copy_id' = out.next_copy_id
    /\ next_loan_id' = out.next_loan_id
    /\ disk' = IF out.persisted THEN persist(out.repo) ELSE disk
    /\ UNCHANGED <<pc, loaded, today>>

add_work(title, author_display, copies) ==
    Call("add_work",
         add_work_do(repo, next_work_id, next_copy_id, next_loan_id, today,
                     title, author_display, copies))

delete_work(work_id) ==
    Call("delete_work",
         delete_work_do(repo, next_work_id, next_copy_id, next_loan_id, today, work_id))

register_member(student_id, name, phone, password) ==
    Call("register_member",
         register_member_do(repo, next_work_id, next_copy_id, next_loan_id, today,
                            student_id, name, phone, password))

remove_member(student_id) ==
    Call("remove_member",
         remove_member_do(repo, next_work_id, next_copy_id, next_loan_id, student_id))

loan(student_id, work_id) ==
    Call("loan",
         loan_do(repo, next_work_id, next_copy_id, next_loan_id, today,
                 student_id, work_id))

return_copy(loan_id) ==
    Call("return_copy",
         return_copy_do(repo, next_work_id, next_copy_id, next_loan_id, today, loan_id))

-----------------------------------------------------------------------------
(* Specification *)

\* Persisted records.  Day 1 is "01"; a record is written as the engine writes it
\* unless its name says otherwise.
Day1 == date_str(1)
Day2 == date_str(2)

W1 == Work(1, Title1, norm_author_key(Author1), Author1, Day1, None)
W1deleted == [W1 EXCEPT !.deleted_date = Day1]
W2 == Work(2, Title2, norm_author_key(Author2), Author2, Day1, None)
M1 == Member(Sid1, Name1, Phone1, Pass1, Day1)
M2 == Member(Sid2, Name1, Phone2, Pass1, Day1)

Disk(works, copies, members, loans, deleted_works) ==
    [works |-> works, copies |-> copies, members |-> members, loans |-> loans,
     deleted_works |-> deleted_works]

\* nothing stored yet
DiskEmpty == EmptyRepo

\* one work with two copies, two members, no loans
DiskClean ==
    Disk(<<W1>>, <<Copy(1, 1, "available", Day1, None), Copy(2, 1, "available", Day1, None)>>,
         <<M1, M2>>, <<>>, <<>>)

\* a copy on loan
DiskLoaned ==
    Disk(<<W1>>, <<Copy(1, 1, "loaned", Day1, None), Copy(2, 1, "available", Day1, None)>>,
         <<M1>>, <<Loan(1, 1, 1, Sid1, Day1, date_str(1 + DUE_DAYS), None)>>, <<>>)

\* two open loans of one copy, the second with a wrong due date
DiskDuplicate ==
    Disk(<<W1>>, <<Copy(1, 1, "loaned", Day1, None)>>, <<M1, M2>>,
         <<Loan(1, 1, 1, Sid1, Day1, date_str(1 + DUE_DAYS), None),
           Loan(2, 1, 1, Sid2, Day2, date_str(1 + DUE_DAYS), None)>>, <<>>)

\* a loan returned before it was made, and an open loan made on a later day than
\* the process may start on (the virtual today of the run that made it was ahead)
DiskDates ==
    Disk(<<W1>>, <<Copy(1, 1, "loaned", Day1, None), Copy(2, 1, "available", Day1, None)>>,
         <<M1>>,
         <<Loan(1, 2, 1, Sid1, Day2, date_str(2 + DUE_DAYS), Day1),
           Loan(2, 1, 1, Sid1, date_str(2 + DUE_DAYS), date_str(2 + DUE_DAYS), None)>>, <<>>)

\* a deleted work whose copies were not deleted with it, one of them on loan
DiskDeletedWork ==
    Disk(<<W1deleted>>,
         <<Copy(1, 1, "available", Day1, None), Copy(2, 1, "loaned", Day1, None)>>,
         <<M1>>, <<Loan(1, 2, 1, Sid1, Day1, date_str(1 + DUE_DAYS), None)>>,
         <<W1deleted>>)

\* a copy of a work that is not stored, with a loan of it, and a loan of a member
\* who is not stored
DiskDangling ==
    Disk(<<W1>>, <<Copy(1, 1, "loaned", Day1, None), Copy(2, 3, "loaned", Day1, None)>>,
         <<M1>>,
         <<Loan(1, 2, 3, Sid1, Day1, date_str(1 + DUE_DAYS), None),
           Loan(2, 1, 1, Sid2, Day1, date_str(1 + DUE_DAYS), None)>>, <<>>)

\* loans.json lost: the copy still says loaned
DiskLostLoans ==
    Disk(<<W1>>, <<Copy(1, 1, "loaned", Day1, None)>>, <<M1>>, <<>>, <<>>)

\* a deleted work with its copy deleted, and a second work
DiskDeleted ==
    Disk(<<W1deleted, W2>>,
         <<Copy(1, 1, "deleted", Day1, Day1), Copy(2, 2, "available", Day1, None)>>,
         <<M1>>, <<>>, <<W1deleted>>)

\* works.json and deleted_works.json older than copies.json: the work is not
\* deleted, its first copy is
DiskStaleWorks ==
    Disk(<<W1>>,
         <<Copy(1, 1, "deleted", Day1, Day1), Copy(2, 1, "available", Day1, None)>>,
         <<M1>>, <<>>, <<>>)

\* copies.json older than loans.json (persist writes loans.json first): the first
\* copy has an open loan and still says available
DiskStaleCopies ==
    Disk(<<W1>>,
         <<Copy(1, 1, "available", Day1, None), Copy(2, 1, "available", Day1, None)>>,
         <<M1>>, <<Loan(1, 1, 1, Sid1, Day1, date_str(1 + DUE_DAYS), None)>>, <<>>)

\* deleted_works.json lost, or not written yet when the run that deleted the work
\* ended (persist writes it last): the work and its copy are deleted, the list of
\* deleted works is empty
DiskLostDeletedWorks ==
    Disk(<<W1deleted>>, <<Copy(1, 1, "deleted", Day1, Day1)>>, <<M1>>, <<>>, <<>>)

InitDisks ==
    {DiskEmpty, DiskClean, DiskLoaned, DiskDuplicate, DiskDates, DiskDeletedWork,
     DiskDangling, DiskLostLoans, DiskDeleted, DiskStaleWorks, DiskStaleCopies,
     DiskLostDeletedWorks}

\* The startup alone, over every store built of these records: a work stored, deleted
\* or missing; up to two copies; up to two loans, numbered in storage order
RepairCopyRecords ==
    {Copy(1, 1, "available", Day1, None), Copy(1, 1, "loaned", Day1, None),
     Copy(2, 2, "loaned", Day1, None)}

RepairLoanRecords ==
    {Loan(0, c, 1, s, d[1], d[2], d[3]) :
        c \in {1, 2}, s \in {Sid1, Sid2},
        d \in {<<Day1, date_str(1 + DUE_DAYS), None>>,
               <<Day2, date_str(1 + DUE_DAYS), None>>,
               <<Day2, date_str(2 + DUE_DAYS), Day1>>}}

Numbered(loans) == [i \in DOMAIN loans |-> [loans[i] EXCEPT !.loan_id = i]]

RepairDisks ==
    {Disk(w[1], c, <<M1>>, Numbered(l), w[2]) :
        w \in {<<<<W1>>, <<>>>>, <<<<W1deleted>>, <<W1deleted>>>>, <<<<>>, <<>>>>},
        c \in SeqsUpTo(RepairCopyRecords, 2),
        l \in SeqsUpTo(RepairLoanRecords, 2)}

Start(disks) ==
    /\ pc = "off"
    /\ disk \in disks
    /\ repo = EmptyRepo
    /\ loaded = EmptyRepo
    /\ today = 0
    /\ next_work_id = 0
    /\ next_copy_id = 0
    /\ next_loan_id = 0
    /\ done = "none"
    /\ calls = 0

Next ==
    \/ \E excel \in ExcelFiles : Load(excel)
    \/ \E t \in Days : ServiceInit(t)
    \/ \E d \in Days : set_today(d)
    \/ \E a \in AddWorkInputs : add_work(a[1], a[2], a[3])
    \/ \E w \in WorkIds : delete_work(w)
    \/ \E a \in RegisterInputs : register_member(a[1], a[2], a[3], a[4])
    \/ \E s \in StudentIds : remove_member(s)
    \/ \E s \in StudentIds, w \in WorkIds : loan(s, w)
    \/ \E l \in LoanIds : return_copy(l)

Init == Start(InitDisks)

Spec == Init /\ [][Next]_vars

InitRepair == Start(RepairDisks)

NextRepair ==
    \/ \E excel \in ExcelFiles : Load(excel)
    \/ \E t \in Days : ServiceInit(t)

SpecRepair == InitRepair /\ [][NextRepair]_vars

\* The load alone, over the files as they can be found: each file absent, not JSON,
\* or a list of up to two records, a record complete or lacking a key
Without(record, key) == [k \in DOMAIN record \ {key} |-> record[k]]

FileMissing == [kind |-> "missing"]
FileUnparsable == [kind |-> "unparsable"]

WorksFiles ==
    {FileMissing, FileUnparsable, JsonFile(<<>>), JsonFile(<<W1>>),
     JsonFile(<<Without(W1, "deleted_date")>>), JsonFile(<<Without(W1, "title")>>)}

CopiesFiles ==
    {FileMissing, FileUnparsable, JsonFile(<<Copy(1, 1, "available", Day1, None)>>),
     JsonFile(<<Without(Copy(1, 1, "available", Day1, None), "status")>>)}

MembersFiles ==
    {FileMissing, FileUnparsable, JsonFile(<<M1, Without(M2, "name")>>),
     JsonFile(<<[Without(M1, "password") EXCEPT !.phone = <<>>], Without(M2, "password")>>)}

LoansFiles ==
    {FileMissing, FileUnparsable,
     JsonFile(<<Without(Loan(1, 1, 1, Sid1, Day1, date_str(1 + DUE_DAYS), None), "return_date")>>),
     JsonFile(<<Without(Loan(1, 1, 1, Sid1, Day1, date_str(1 + DUE_DAYS), None), "due_date")>>)}

DeletedWorksFiles ==
    {FileMissing, FileUnparsable, JsonFile(<<W1deleted>>),
     JsonFile(<<Without(W1deleted, "title")>>)}

FileDisks ==
    {Disk(w, c, m, l, d) :
        w \in WorksFiles, c \in CopiesFiles, m \in MembersFiles, l \in LoansFiles,
        d \in DeletedWorksFiles}

InitLoad == Start(FileDisks)

NextLoad ==
    \/ \E excel \in ExcelFiles : LoadFiles(excel)
    \/ \E t \in Days : ServiceInit(t)

SpecLoad == InitLoad /\ [][NextLoad]_vars

-----------------------------------------------------------------------------
(* Properties *)

Ready == pc = "ready"

\* the positions of the open loans of a copy
OpenLoansOf(r, copy_id) ==
    {i \in DOMAIN r.loans : r.loans[i].copy_id = copy_id /\ r.loans[i].return_date = None}

CopyIdsOf(r) == {c.copy_id : c \in Range(r.copies)} \cup {l.copy_id : l \in Range(r.loans)}

\* a call changed nothing: the lists, the counters and the files are as before
Untouched(o) ==
    /\ o.repo = repo
    /\ o.next_work_id = next_work_id
    /\ o.next_copy_id = next_copy_id
    /\ o.next_loan_id = next_loan_id
    /\ ~o.persisted

\* what each call of the engine would do in the current state
AddWorkOutcome(a) ==
    add_work_do(repo, next_work_id, next_copy_id, next_loan_id, today, a[1], a[2], a[3])
DeleteWorkOutcome(w) ==
    delete_work_do(repo, next_work_id, next_copy_id, next_loan_id, today, w)
RegisterOutcome(a) ==
    register_member_do(repo, next_work_id, next_copy_id, next_loan_id, today,
                       a[1], a[2], a[3], a[4])
RemoveOutcome(s) ==
    remove_member_do(repo, next_work_id, next_copy_id, next_loan_id, s)
LoanOutcome(s, w) ==
    loan_do(repo, next_work_id, next_copy_id, next_loan_id, today, s, w)
ReturnOutcome(l) ==
    return_copy_do(repo, next_work_id, next_copy_id, next_loan_id, today, l)

EngineOutcomes ==
    {AddWorkOutcome(a) : a \in AddWorkInputs}
        \cup {DeleteWorkOutcome(w) : w \in WorkIds}
        \cup {RegisterOutcome(a) : a \in RegisterInputs}
        \cup {RemoveOutcome(x) : x \in StudentIds}
        \cup {LoanOutcome(x[1], x[2]) : x \in StudentIds \X WorkIds}
        \cup {ReturnOutcome(l) : l \in LoanIds}

\* C1: once the service is built, and after every call of the engine, no copy has
\* more than one loan with return_date None.
C1_AtMostOneOpenLoan ==
    Ready => \A c \in CopyIdsOf(repo) : Cardinality(OpenLoansOf(repo, c)) <= 1

\* C1 witness: a copy read with two open loans has one open loan now, made by
\* a loan after the startup.
C1_Witness ==
    /\ Ready
    /\ done = "loan"
    /\ \E c \in CopyIdsOf(repo) :
          /\ Cardinality(OpenLoansOf(loaded, c)) = 2
          /\ \E i \in OpenLoansOf(repo, c) : i > Len(loaded.loans)

\* C2 (as claimed): right after the startup repair every copy's work is stored, and
\* every loan's copy and member are stored.
C2_NoDanglingReferences ==
    (Ready /\ done = "LibraryService") =>
        /\ \A c \in Range(repo.copies) : \E w \in Range(repo.works) : w.work_id = c.work_id
        /\ \A l \in Range(repo.loans) :
              /\ \E c \in Range(repo.copies) : c.copy_id = l.copy_id
              /\ \E m \in Range(repo.members) : m.student_id = l.student_id

\* C3 (as claimed): a second run of the repair right after the first changes nothing.
C3_RepairIdempotent ==
    (Ready /\ done = "LibraryService") =>
        _validate_and_fix_data_integrity(repo, today) = repo

\* C4: once the service is built, and after every call, each loan's due_date is
\* its loan_date plus DUE_DAYS days.
C4_DueDateLaw ==
    Ready => \A l \in Range(repo.loans) :
                parse_date(l.due_date) = parse_date(l.loan_date) + DUE_DAYS

\* C4 witness: a loan read with another due date stands corrected, and a loan has
\* been made since.
C4_Witness ==
    /\ Ready
    /\ done = "loan"
    /\ Len(repo.loans) > Len(loaded.loans)
    /\ \E i \in DOMAIN loaded.loans :
          /\ parse_date(loaded.loans[i].due_date)
                # parse_date(loaded.loans[i].loan_date) + DUE_DAYS
          /\ repo.loans[i].loan_id = loaded.loans[i].loan_id
          /\ parse_date(repo.loans[i].due_date)
                = parse_date(repo.loans[i].loan_date) + DUE_DAYS

C6_FailureAtomicity ==
    Ready => \A o \in EngineOutcomes : o.report \notin Success => Untouched(o)

\* C6 witness: the only available copy of a work has just been lent, and a second
\* loan of the work is refused for want of an available copy.
C6_Witness ==
    /\ Ready
    /\ done = "loan"
    /\ \E s \in StudentIds, w \in WorkIds :
          /\ LoanOutcome(s, w).report = "no available copy"
          /\ \E i \in DOMAIN repo.loans :
                /\ i > Len(loaded.loans)
                /\ repo.loans[i].work_id = w
                /\ repo.loans[i].return_date = None

\* register_member with the name, phone and password of Scenario 1 on a store without
\* members, and the same call again on what the first leaves
Scenario1(student_id) ==
    LET first == RegisterOutcome(<<student_id, Name1, Phone1, Pass1>>)
        second == register_member_do(first.repo, first.next_work_id, first.next_copy_id,
                                     first.next_loan_id, today,
                                     student_id, Name1, Phone1, Pass1)
    IN  /\ first.report = "ok"
        /\ first.persisted
        /\ first.repo.members
             = <<Member(student_id, Name1, Phone1, Pass1, date_str(today))>>
        /\ second.report = "student_id taken"
        /\ second.repo.members = first.repo.members

Cascaded(r, t, o, work_id) ==
    /\ \E i \in DOMAIN o.repo.works :
          /\ o.repo.works[i].work_id = work_id
          /\ o.repo.works[i].deleted_date = date_str(t)
          /\ o.repo.works[i] \in Range(o.repo.deleted_works)
    /\ Len(o.repo.copies) = Len(r.copies)
    /\ \A i \in DOMAIN r.copies :
          r.copies[i].work_id = work_id =>
              /\ o.repo.copies[i].copy_id = r.copies[i].copy_id
              /\ o.repo.copies[i].deleted_date # None
              /\ r.copies[i].status = "available" => o.repo.copies[i].status = "deleted"

\* C8: right after a delete_work that succeeds, the work has deleted_date today
\* and is among the deleted works, each of its copies has a deleted_date, and each
\* of them that was available says deleted.
C8_DeleteCascade ==
    Ready => \A w \in WorkIds :
                DeleteWorkOutcome(w).report = "ok" =>
                    Cascaded(repo, today, DeleteWorkOutcome(w), w)

\* C8 witness: the last call deleted a work, and a copy of it says deleted as of today.
C8_Witness ==
    /\ Ready
    /\ done = "delete_work"
    /\ Len(repo.deleted_works) > Len(loaded.deleted_works)
    /\ LET work == repo.deleted_works[Len(repo.deleted_works)]
       IN  /\ work.deleted_date = date_str(today)
           /\ \E c \in Range(repo.copies) :
                 /\ c.work_id = work.work_id
                 /\ c.status = "deleted"
                 /\ c.deleted_date = date_str(today)

\* C9: delete_work of a work with an open loan is refused and changes nothing;
\* and when that was the reason of the refusal and a return_copy closes the last
\* open loan of the work, the same delete_work succeeds and deletes the work with
\* its copies.
C9_DeleteGated ==
    Ready => \A w \in WorkIds :
        LET o == DeleteWorkOutcome(w)
        IN  /\ (\E l \in Range(repo.loans) : l.work_id = w /\ l.return_date = None)
                  => o.report \notin Success /\ Untouched(o)
            /\ o.report = "on loan" =>
                  \A id \in LoanIds :
                      LET ret == ReturnOutcome(id)
                          again == delete_work_do(ret.repo, ret.next_work_id,
                                                  ret.next_copy_id, ret.next_loan_id,
                                                  today, w)
                      IN  (ret.report \in Success /\ loans_of_work(ret.repo, w) = <<>>)
                              => again.report = "ok" /\ Cascaded(ret.repo, today, again, w)

\* C9 witness: a loan made since the startup has been returned, and the work it
\* was of has been deleted by the last call.
C9_Witness ==
    /\ Ready
    /\ done = "delete_work"
    /\ \E i \in DOMAIN repo.loans :
          /\ i > Len(loaded.loans)
          /\ repo.loans[i].return_date # None
          /\ \E w \in Range(repo.deleted_works) :
                /\ w.work_id = repo.loans[i].work_id
                /\ w \notin Range(loaded.deleted_works)

\* C10 (as claimed): once the service is built, and after every call, a loan that
\* has a return_date has it on or after its loan_date.
C10_ReturnNotBeforeLoan ==
    Ready => \A l \in Range(repo.loans) :
                l.return_date # None => parse_date(l.return_date) >= parse_date(l.loan_date)

\* C11: once the service is built, set_today(new_date) with new_date before
\* today leaves today as it is, and with any other new_date makes it today; so
\* today never decreases, and no step but an accepted set_today changes it.
C11_ClockMonotone ==
    [][Ready =>
          /\ today' >= today
          /\ today' # today => done' = "set_today"
          /\ \A d \in Days :
                set_today(d) => today' = (IF d < today THEN today ELSE d)]_vars

\* C11 witness: today has been moved on past the day of a loan made since the
\* startup, and a set_today back to an earlier day would be refused.
C11_Witness ==
    /\ Ready
    /\ done = "set_today"
    /\ \E i \in DOMAIN repo.loans :
          i > Len(loaded.loans) /\ parse_date(repo.loans[i].loan_date) < today
    /\ \E d \in Days : d < today /\ set_today_do(today, d) = today

\* the six calls of the engine that change the lists
EngineCalls ==
    {"add_work", "delete_work", "register_member", "remove_member", "loan", "return_copy"}

\* C12: when a call of add_work, delete_work, register_member, remove_member,
\* loan or return_copy has succeeded, the five stored lists are the five lists in
\* memory, and a Repository built from them would read the same members.
C12_PersistAfterMutation ==
    [][(Ready /\ calls' = calls + 1 /\ done' \in EngineCalls) =>
          /\ repo' # repo
          /\ disk' = repo'
          /\ load_members(disk'.members) = repo'.members]_vars

\* C12 witness: a loan made since the startup is stored, with the lists in memory.
C12_Witness ==
    /\ Ready
    /\ done = "loan"
    /\ Len(disk.loans) > Len(loaded.loans)
    /\ disk = repo

\* no two works without deleted_date have the same title and author_key
UniqueWorks(works) ==
    \A i, j \in DOMAIN works :
        (/\ i # j
         /\ works[i].deleted_date = None
         /\ works[j].deleted_date = None
         /\ works[i].title = works[j].title)
            => works[i].author_key # works[j].author_key

\* C13: when no two works read without deleted_date share title and author_key,
\* no two works without deleted_date share them after any calls of add_work and
\* delete_work (and of the other operations).
C13_WorkIdentityUnique ==
    (Ready /\ UniqueWorks(loaded.works)) => UniqueWorks(repo.works)

\* C13 witness: add_work has appended a work with the title and author_key of a
\* deleted work.
C13_Witness ==
    /\ Ready
    /\ UniqueWorks(loaded.works)
    /\ done = "add_work"
    /\ \E i, j \in DOMAIN repo.works :
          /\ j > Len(loaded.works)
          /\ repo.works[i].deleted_date # None
          /\ repo.works[j].deleted_date = None
          /\ repo.works[i].title = repo.works[j].title
          /\ repo.works[i].author_key = repo.works[j].author_key

\* add_work(a) found a work to add to: no work is appended, and n copies of the
\* first such work, available and registered today, are appended
Merged(a) ==
    LET o == AddWorkOutcome(a)
        existing == existing_works(repo, Strip(a[1]), norm_author_key(a[2]))
        n == a[3]
        added == SubSeq(o.repo.copies, Len(repo.copies) + 1, Len(o.repo.copies))
    IN  /\ o.report = "ok"
        /\ o.repo.works = repo.works
        /\ o.next_work_id = next_work_id
        /\ Len(o.repo.copies) = Len(repo.copies) + n
        /\ SubSeq(o.repo.copies, 1, Len(repo.copies)) = repo.copies
        /\ \A k \in 1..n :
              added[k] = Copy(next_copy_id + k - 1, existing[1].work_id, "available",
                              date_str(today), None)

\* add_work(Clean Code, Robert Martin, 2) and then add_work(Clean Code,
\* 'robert   martin', 1): one work more, with three copies
Scenario2 ==
    LET first == AddWorkOutcome(<<Title1, Author1, 2>>)
        second == add_work_do(first.repo, first.next_work_id, first.next_copy_id,
                              first.next_loan_id, today, Title1, Author1b, 1)
    IN  /\ first.report = "ok" /\ second.report = "ok"
        /\ Len(second.repo.works) = Len(repo.works) + 1
        /\ second.repo.works = first.repo.works
        /\ LET work == second.repo.works[Len(second.repo.works)]
           IN  /\ work.title = Title1
               /\ work.author_display = Author1
               /\ work.work_id = next_work_id
               /\ Len(SelectSeq(second.repo.copies,
                                LAMBDA c : c.work_id = work.work_id /\ c.status = "available"))
                    = 3 + Len(SelectSeq(repo.copies,
                                LAMBDA c : c.work_id = work.work_id /\ c.status = "available"))
        /\ Len(second.repo.copies) = Len(repo.copies) + 3

\* C14: add_work of a title and an author whose normalized key are those of a
\* work that is not deleted appends no work and appends exactly n copies of that
\* work, available and registered today; and on a store without the work,
\* add_work(title, "R M", 2) then add_work(title, "r  m", 1) leave one work more
\* with three copies.
C14_MergeByIdentity ==
    Ready =>
        /\ \A a \in AddWorkInputs :
              (/\ a[3] >= 1
               /\ Strip(a[1]) # <<>>
               /\ Strip(a[2]) # <<>>
               /\ existing_works(repo, Strip(a[1]), norm_author_key(a[2])) # <<>>)
                  => Merged(a)
        /\ existing_works(repo, Title1, norm_author_key(Author1)) = <<>> => Scenario2

\* C14 witness: add_work has appended the work with author "R M" and two copies,
\* and add_work of the title with author "r  m" and one copy would add the third
\* copy to it.
C14_Witness ==
    /\ Ready
    /\ done = "add_work"
    /\ Len(repo.works) = Len(loaded.works) + 1
    /\ Len(repo.copies) = Len(loaded.copies) + 2
    /\ repo.works[Len(repo.works)].author_display = Author1
    /\ Merged(<<Title1, Author1b, 1>>)
    /\ Len(AddWorkOutcome(<<Title1, Author1b, 1>>).repo.copies) = Len(loaded.copies) + 3

\* C15: remove_member(student_id) is refused and changes nothing when no member
\* has the student_id or a loan of the student_id is open; otherwise it removes
\* one member record, of that student_id, and changes nothing else.
C15_MemberRemoval ==
    Ready => \A s \in StudentIds :
        LET o == RemoveOutcome(s)
            known == \E m \in Range(repo.members) : m.student_id = s
            borrowing == \E l \in Range(repo.loans) :
                             l.student_id = s /\ l.return_date = None
        IN  IF ~known \/ borrowing
            THEN o.report \notin Success /\ Untouched(o)
            ELSE /\ o.report = "ok"
                 /\ o.persisted
                 /\ \E i \in DOMAIN repo.members :
                       /\ repo.members[i].student_id = s
                       /\ o.repo.members
                            = SubSeq(repo.members, 1, i - 1)
                                \o SubSeq(repo.members, i + 1, Len(repo.members))
                 /\ o.repo = [repo EXCEPT !.members = o.repo.members]
                 /\ o.next_work_id = next_work_id
                 /\ o.next_copy_id = next_copy_id
                 /\ o.next_loan_id = next_loan_id

\* C15 witness: a member read with an open loan has returned it and has been
\* removed by the last call; another member with an open loan would be refused,
\* or the removed one is now unknown.
C15_Witness ==
    /\ Ready
    /\ done = "remove_member"
    /\ \E i \in DOMAIN loaded.loans :
          /\ loaded.loans[i].return_date = None
          /\ i \in DOMAIN repo.loans
          /\ repo.loans[i].return_date # None
          /\ \E m \in Range(loaded.members) : m.student_id = loaded.loans[i].student_id
          /\ ~\E m \in Range(repo.members) : m.student_id = loaded.loans[i].student_id
          /\ RemoveOutcome(loaded.loans[i].student_id).report = "no such member"

\* no two members have the same student_id, and no two the same phone
UniqueMembers(members) ==
    \A i, j \in DOMAIN members :
        i # j => /\ members[i].student_id # members[j].student_id
                 /\ members[i].phone # members[j].phone

\* C16: when the members read have different student_ids and different phones,
\* so have the members after any calls of register_member and remove_member (and
\* of the other operations).
C16_MemberUnique ==
    (Ready /\ UniqueMembers(loaded.members)) => UniqueMembers(repo.members)

\* C16 witness: a member has been registered by the last call; registering the
\* student_id again, or another student_id with the phone, would be refused.
C16_Witness ==
    /\ Ready
    /\ UniqueMembers(loaded.members)
    /\ done = "register_member"
    /\ Len(repo.members) > Len(loaded.members)
    /\ \E a \in RegisterInputs : RegisterOutcome(a).report = "student_id taken"
    /\ \E a \in RegisterInputs : RegisterOutcome(a).report = "phone taken"

\* C17: a copy that says deleted says deleted after every step, the startup
\* repair and each call of the engine, as long as it is stored; and the copy a
\* successful loan lends is not one that says deleted.
C17_DeletedIsTerminal ==
    [][pc # "off" =>
          /\ \A c \in Range(repo.copies) :
                c.status = "deleted" =>
                    \A c2 \in Range(repo'.copies) :
                        c2.copy_id = c.copy_id => c2.status = "deleted"
          /\ \A i \in DOMAIN repo.copies :
                (Ready /\ repo.copies[i].status = "deleted") =>
                    /\ i \in DOMAIN repo'.copies
                    /\ repo'.copies[i].status = "deleted"
          /\ \A s \in StudentIds, w \in WorkIds :
                (Ready /\ LoanOutcome(s, w).report = "ok") =>
                    LET lent == LoanOutcome(s, w).repo.loans[Len(repo.loans) + 1].copy_id
                    IN  \A c \in Range(repo.copies) :
                            c.copy_id = lent => c.status # "deleted"]_vars

\* C17 witness: a loan made since the startup lent a copy of a work whose first
\* stored copy says deleted, and that copy still says deleted.
C17_Witness ==
    /\ Ready
    /\ done = "loan"
    /\ \E i, j \in DOMAIN repo.copies, k \in DOMAIN repo.loans :
          /\ i < j
          /\ k > Len(loaded.loans)
          /\ repo.copies[i].work_id = repo.copies[j].work_id
          /\ loaded.copies[i].status = "deleted"
          /\ repo.copies[i].status = "deleted"
          /\ repo.loans[k].copy_id = repo.copies[j].copy_id
          /\ repo.loans[k].work_id = repo.copies[j].work_id
          /\ repo.copies[j].status = "loaned"

\* C18: once the service is built, a loan that has a return_date keeps it through
\* every call of the engine, and return_copy of a loan that has one is refused and
\* changes nothing.
C18_LoanOneWay ==
    [][Ready =>
          /\ \A i \in DOMAIN repo.loans :
                repo.loans[i].return_date # None =>
                    /\ i \in DOMAIN repo'.loans
                    /\ repo'.loans[i].loan_id = repo.loans[i].loan_id
                    /\ repo'.loans[i].return_date = repo.loans[i].return_date
          /\ \A id \in LoanIds :
                LET l == FirstPos({i \in DOMAIN repo.loans : repo.loans[i].loan_id = id})
                IN  (l # 0 /\ repo.loans[l].return_date # None) =>
                        /\ ReturnOutcome(id).report = "already returned"
                        /\ Untouched(ReturnOutcome(id))]_vars

\* C18 witness: a loan read open has been returned today by the last call, and
\* returning it again would be refused as already returned.
C18_Witness ==
    /\ Ready
    /\ done = "return_copy"
    /\ \E i \in DOMAIN loaded.loans :
          /\ loaded.loans[i].return_date = None
          /\ repo.loans[i].return_date = date_str(today)
          /\ ReturnOutcome(repo.loans[i].loan_id).report = "already returned"

\* every record of old has a record of the same id in new
KeptById(old, new, id) ==
    \A x \in Range(old) : \E y \in Range(new) : y[id] = x[id]

\* new is old, each record in its place under its id, with records appended
KeptInPlace(old, new, id) ==
    /\ Len(new) >= Len(old)
    /\ \A i \in DOMAIN old : new[i][id] = old[i][id]

\* a loan of old differs in new only by a return_date set by return_copy on day t
OnlyReturned(old, new, t, last) ==
    \A l \in Range(old), l2 \in Range(new) :
        l2.loan_id = l.loan_id =>
            \/ l2 = l
            \/ /\ l.return_date = None
               /\ l2 = [l EXCEPT !.return_date = date_str(t)]
               /\ last = "return_copy"

C20_OverdueReturn ==
    Ready => \A id \in LoanIds :
        LET o == ReturnOutcome(id)
            l == FirstPos({i \in DOMAIN repo.loans : repo.loans[i].loan_id = id})
            cp == FirstPos({i \in DOMAIN repo.copies :
                                repo.copies[i].copy_id = repo.loans[l].copy_id})
        IN  o.report \in Success =>
                /\ o.repo.loans[l].return_date = date_str(today)
                /\ (o.report = "ok (overdue)") <=> (today > parse_date(repo.loans[l].due_date))
                /\ (cp # 0 /\ repo.copies[cp].deleted_date = None)
                      => o.repo.copies[cp].status = "available"

\* C20 witness: a loan made since the startup has been returned by the last call,
\* DUE_DAYS + 1 days after it was made, and its copy says available.
C20_Witness ==
    /\ Ready
    /\ done = "return_copy"
    /\ \E i \in DOMAIN repo.loans :
          /\ i > Len(loaded.loans)
          /\ repo.loans[i].return_date = date_str(today)
          /\ today = parse_date(repo.loans[i].loan_date) + DUE_DAYS + 1
          /\ overdue(repo.loans[i].return_date, repo.loans[i].due_date)
          /\ \E c \in Range(repo.copies) :
                /\ c.copy_id = repo.loans[i].copy_id
                /\ c.deleted_date = None
                /\ c.status = "available"

\* the ids of the records of a list
IdSet(list, id) == {x[id] : x \in Range(list)}

\* the records of a list have different ids
DistinctIds(list, id) ==
    \A i, j \in DOMAIN list : i # j => list[i][id] # list[j][id]

\* the counter is above every id of the list in memory and of the list as read
Above(counter, list, id) ==
    \A x \in IdSet(repo[list], id) \cup IdSet(loaded[list], id) : counter > x

\* C21 (as claimed): the ids add_work and loan give are above every id present,
\* ids that are different when read stay different, and no id is given a second
\* time, not after the repair removed its record either: the counter the next
\* process would start from, given the lists now stored, is above every id this
\* process has read.
C21_NeverReused ==
    Ready =>
        /\ Above(next_copy_id, "copies", "copy_id")
        /\ Above(next_loan_id, "loans", "loan_id")
        /\ \A x \in IdSet(loaded.copies, "copy_id") :
              _get_next_unique_id(Ids(disk.copies, "copy_id")) > x
        /\ \A x \in IdSet(loaded.loans, "loan_id") :
              _get_next_unique_id(Ids(disk.loans, "loan_id")) > x

\* C21 (amended): within one process the ids add_work and loan give are above
\* every id in memory and every id read at the startup, the records the repair
\* removed included, and ids that are different when read stay different.
C21_IdsAbove ==
    Ready =>
        /\ Above(next_work_id, "works", "work_id")
        /\ Above(next_copy_id, "copies", "copy_id")
        /\ Above(next_loan_id, "loans", "loan_id")
        /\ \A a \in AddWorkInputs :
              LET o == AddWorkOutcome(a)
              IN  o.report = "ok" =>
                      /\ \A i \in (Len(repo.works) + 1)..Len(o.repo.works) :
                            o.repo.works[i].work_id = next_work_id
                      /\ \A i \in (Len(repo.copies) + 1)..Len(o.repo.copies) :
                            o.repo.copies[i].copy_id
                              = next_copy_id + i - Len(repo.copies) - 1
        /\ \A x \in StudentIds \X WorkIds :
              LET o == LoanOutcome(x[1], x[2])
              IN  o.report = "ok" =>
                      o.repo.loans[Len(o.repo.loans)].loan_id = next_loan_id
        /\ DistinctIds(loaded.works, "work_id") => DistinctIds(repo.works, "work_id")
        /\ DistinctIds(loaded.copies, "copy_id") => DistinctIds(repo.copies, "copy_id")
        /\ DistinctIds(loaded.loans, "loan_id") => DistinctIds(repo.loans, "loan_id")

\* C21 witness: the repair removed the copy with the greatest id, and add_work
\* has since appended a copy with a greater id.
C21_Witness ==
    /\ Ready
    /\ done = "add_work"
    /\ Len(loaded.copies) > 0
    /\ \E c \in Range(loaded.copies) :
          /\ \A x \in IdSet(loaded.copies, "copy_id") : x <= c.copy_id
          /\ c.copy_id \notin IdSet(repo.copies, "copy_id")
          /\ repo.copies[Len(repo.copies)].copy_id > c.copy_id

\* C22 (as claimed): the load never crashes. Whatever the five files hold - absent,
\* not JSON, or records lacking a required key - the construction of the Repository
\* completes and the process goes on to the repair.
C22_LoadNeverCrashes == pc # "crashed"

\* the lists as step 3 of the repair finds them: as loaded, after steps 1 and 2
BeforeStep3 == _remove_invalid_references(_fix_deleted_work_references(loaded, today))

AfterStep3 == _fix_duplicate_loans(BeforeStep3)

\* C23: for every copy that has more than one open loan when step 3 of the repair
\* runs, exactly one of them is open afterwards; it has the greatest loan_date of
\* them, and among those of the greatest loan_date it is the earliest stored; each of
\* the others has its return_date set to its own loan_date and nothing else changed.
\* The loans of a copy with at most one open loan, and the returned loans, are as
\* they were.
C23_DuplicateResolution ==
    (Ready /\ done = "LibraryService") =>
        LET before == BeforeStep3.loans
            after == AfterStep3.loans
        IN  /\ DOMAIN after = DOMAIN before
            /\ \A c \in CopyIdsOf(BeforeStep3) :
                  LET open == OpenLoansOf(BeforeStep3, c)
                  IN  IF Cardinality(open) > 1
                      THEN \E k \in open :
                              /\ OpenLoansOf(AfterStep3, c) = {k}
                              /\ after[k] = before[k]
                              /\ \A j \in open \ {k} :
                                    /\ ~StrLess(before[k].loan_date, before[j].loan_date)
                                    /\ before[j].loan_date = before[k].loan_date => k < j
                                    /\ after[j] = [before[j] EXCEPT
                                                      !.return_date = before[j].loan_date]
                      ELSE \A j \in DOMAIN before :
                              before[j].copy_id = c => after[j] = before[j]
            /\ \A j \in DOMAIN before :
                  before[j].return_date # None => after[j] = before[j]

\* C23 witness: step 3 found two open loans of one copy made on the same day and
\* left the first of them open, the second returned on its loan_date.
C23_Witness ==
    /\ Ready
    /\ done = "LibraryService"
    /\ Len(BeforeStep3.loans) = 2
    /\ OpenLoansOf(BeforeStep3, 1) = {1, 2}
    /\ BeforeStep3.loans[1].loan_date = BeforeStep3.loans[2].loan_date
    /\ repo.loans[1].return_date = None
    /\ repo.loans[2].return_date = repo.loans[2].loan_date

\* C24 (as claimed): a return_copy that succeeds on a loan whose copy has a
\* deleted_date closes the loan with return_date today and leaves the copy's status
\* deleted, not available.
C24_ReturnedDeletedCopy ==
    Ready => \A id \in LoanIds :
        LET o == ReturnOutcome(id)
            l == FirstPos({i \in DOMAIN repo.loans : repo.loans[i].loan_id = id})
            cp == FirstPos({i \in DOMAIN repo.copies :
                                repo.copies[i].copy_id = repo.loans[l].copy_id})
        IN  (o.report \in Success /\ cp # 0 /\ repo.copies[cp].deleted_date # None) =>
                /\ o.repo.loans[l].return_date = date_str(today)
                /\ o.repo.copies[cp].status = "deleted"

\* C25 (as claimed): the repairs of the startup are written to the files. Once the
\* service is built, before any call of the engine, the five files hold the lists
\* as they are in memory, so a process that ends there leaves nothing to repair
\* again.
C25_RepairsPersisted ==
    (Ready /\ done = "LibraryService") =>
        /\ disk = repo
        /\ \A t \in Days : _validate_and_fix_data_integrity(disk, t) = disk

\* C26 (as claimed): the load of a later start leaves copies.json alone. When
\* copies.json holds a list and works.json is there - a list, an empty list, or not
\* JSON - building the Repository does not go to the Excel file and does not write
\* copies.json.
C26_LoadKeepsCopies ==
    [][(pc = "off" /\ disk.works.kind # "missing" /\ disk.copies.kind = "json")
          => disk'.copies = disk.copies]_vars

\* C27 (as claimed): once the service is built, and after every call of the engine,
\* a copy says loaned exactly when some loan of it has return_date None.
C27_StatusAgreesWithLoans ==
    Ready => \A c \in Range(repo.copies) :
        (c.status = "loaned") <=> (OpenLoansOf(repo, c.copy_id) # {})

\* a copy of the work that says available, has no deleted_date and no open loan
LoanableCopies(r, work_id) ==
    {c \in Range(r.copies) :
        /\ c.work_id = work_id
        /\ c.status = "available"
        /\ c.deleted_date = None
        /\ OpenLoansOf(r, c.copy_id) = {}}

\* C28 (as claimed): once the service is built, a loan succeeds whenever the member
\* is stored, the work is stored and not deleted, and some copy of the work says
\* available, has no deleted_date and has no open loan - whatever the state of the
\* other copies of the work.
C28_LoanCompleteness ==
    Ready => \A s \in StudentIds, w \in WorkIds :
        (/\ \E m \in Range(repo.members) : m.student_id = s
         /\ \E x \in Range(repo.works) : x.work_id = w /\ x.deleted_date = None
         /\ LoanableCopies(repo, w) # {})
            => LoanOutcome(s, w).report = "ok"

\* C29 (as claimed): once the service is built, and after every call of the engine,
\* return_copy succeeds on every loan that has return_date None: the loan's copy,
\* member and work are stored.
C29_OpenLoanCanBeClosed ==
    Ready => \A l \in Range(repo.loans) :
        l.return_date = None =>
            return_copy_do(repo, next_work_id, next_copy_id, next_loan_id, today,
                           l.loan_id).report \in Success

\* every loan names a stored member, a stored copy and a stored work
LoansResolve(r) ==
    \A l \in Range(r.loans) :
        /\ \E m \in Range(r.members) : m.student_id = l.student_id
        /\ \E c \in Range(r.copies) : c.copy_id = l.copy_id
        /\ \E w \in Range(r.works) : w.work_id = l.work_id

\* C30 (as claimed): when after the startup every loan names a stored member, copy
\* and work, the same holds after every call of the engine, whatever the call, for
\* the open loans and the returned ones; the repair of the next start then removes
\* no loan.
C30_EnginePreservesReferences ==
    [][(Ready /\ LoansResolve(repo)) =>
          /\ LoansResolve(repo')
          /\ _remove_invalid_references(repo').loans = repo'.loans]_vars

\* every loan names a stored copy and a stored work, and every open loan a stored
\* member
OpenLoansResolve(r) ==
    \A l \in Range(r.loans) :
        /\ \E c \in Range(r.copies) : c.copy_id = l.copy_id
        /\ \E w \in Range(r.works) : w.work_id = l.work_id
        /\ l.return_date = None => \E m \in Range(r.members) : m.student_id = l.student_id

\* the loans of the list whose member is stored
LoansOfMembers(r) ==
    SelectSeq(r.loans, LAMBDA l : \E m \in Range(r.members) : m.student_id = l.student_id)

\* C30 (amended): when every loan names a stored copy and work and every open loan
\* a stored member, the same holds after every call of the engine; the loans the
\* repair of the next start removes are the returned loans of members that
\* remove_member has removed.
C30_EnginePreservesOpenReferences ==
    [][(Ready /\ OpenLoansResolve(repo)) =>
          /\ OpenLoansResolve(repo')
          /\ _remove_invalid_references(repo').loans = LoansOfMembers(repo')]_vars

\* C30 witness: the startup left every loan with a stored member, copy and work;
\* the last call removed a member, and a returned loan names that member still.
C30_Witness ==
    /\ Ready
    /\ done = "remove_member"
    /\ \A t \in Days : LoansResolve(_validate_and_fix_data_integrity(loaded, t))
    /\ OpenLoansResolve(repo)
    /\ \E l \in Range(repo.loans) :
          /\ l.return_date # None
          /\ \E m \in Range(loaded.members) : m.student_id = l.student_id
          /\ ~\E m \in Range(repo.members) : m.student_id = l.student_id

\* the works with a deleted_date are the works listed in deleted_works
DeletionAgrees(r) ==
    \A w \in Range(r.works) :
        (w.deleted_date # None) <=> (\E d \in Range(r.deleted_works) : d.work_id = w.work_id)

\* C31 (as claimed): once the service is built, and after every call of the engine,
\* a work is listed in deleted_works exactly when its deleted_date is set, so the
\* test add_work makes (deleted_date) and the lookup of _find_work (the list of
\* deleted works) take the same works for deleted.
C31_OneSourceOfDeletion == Ready => DeletionAgrees(repo)

====
